---- MODULE Spec2Model ----
(***************************************************************************)
(* Mission controller of firmware/esp32_gps_telemetry.ino.                 *)
(*                                                                         *)
(* The controller is one cooperative loop().  One iteration feeds the GPS  *)
(* parser, reads and processes at most one command line, sends the         *)
(* periodic telemetry, runs checkWaypoint and prints the periodic progress *)
(* line.  Each of these steps is one action; a step that is skipped in an  *)
(* iteration (no line waiting, interval not elapsed) is a step not taken.  *)
(* serialOut holds the lines the last step printed on Serial; command      *)
(* holds the line the last step read, if it read one; wp holds what the    *)
(* last step's checkWaypoint read through its pointer wp, if it got there.  *)
(*                                                                         *)
(* Coordinates are integers on a local grid of one metre per unit, where   *)
(* the haversine distance is the Euclidean one (see calculateDistance).    *)
(* elapsed-time tests (millis() - last >= interval) are a free choice.     *)
(***************************************************************************)
EXTENDS Integers, Sequences, FiniteSets, TLC

\* ---------------------------------------------------------------- constants
Capacity == 20
waypointReachedDistance == 5

\* ------------------------------------------------------------------- bounds
MaxSmall == 2      \* small total_waypoints values range over 0..MaxSmall
MaxExtra == 1      \* large ones over Capacity..Capacity+MaxExtra
MaxPending == 2    \* reconnect timers, silent connects, disconnects pending at once
MaxQueue == 2      \* writes handed to the writer and not yet settled
MaxChunk == 2      \* units in one value of reader.read()
MaxStream == 4     \* units read over one connection

\* JSON: a member that is absent from the document
Missing == -1000
\* waypoint names: "Waypoint i" is i, the empty String is 0, "null" is -1
NameEmpty == 0
NameNull == -1
\* a field an output line does not carry
NA == -2000

States == {"WAITING", "LOADED", "NAVIGATING", "COMPLETE"}

\* status["mission_state"] = missionState serialises the enum's ordinal
MissionStateCode(s) ==
  CASE s = "WAITING" -> 0
    [] s = "LOADED" -> 1
    [] s = "NAVIGATING" -> 2
    [] s = "COMPLETE" -> 3

VARIABLES
  missionActive, currentWaypointIndex, totalWaypoints, maxSpeed, maxAltitude,
  enableReturnToHome, missionId, missionState, waypoints,
  gps, command, serialOut, wp, memoryCorrupted, stateWrites,
  \* the operator console (main.js)
  isConnected, reader, writer, serialPort, portOpen, granted, reading,
  connecting, reconnectTimers, autoConnect, lastConnectedDevice,
  storage, lastTelemetry, connectionStatus, opLog,
  statusTimers, writeQueue, wire, serialBuffer, received, delivered,
  \* the disconnectDevice calls suspended at an await: the step each waits
  \* for and what called it
  teardown,
  \* three positions and the distances calculateDistance gives among them
  points, distances

missionVars == <<missionActive, currentWaypointIndex, totalWaypoints, maxSpeed,
                 maxAltitude, enableReturnToHome, missionId, missionState,
                 waypoints>>
\* the controller's variables and the console's
ctrlVars == <<missionActive, currentWaypointIndex, totalWaypoints, maxSpeed,
              maxAltitude, enableReturnToHome, missionId, missionState,
              waypoints, gps, command, serialOut, wp, memoryCorrupted,
              stateWrites>>
linkVars == <<isConnected, reader, writer, serialPort, portOpen, granted,
              reading, connecting, reconnectTimers, autoConnect,
              lastConnectedDevice, storage, lastTelemetry, connectionStatus,
              opLog, statusTimers, writeQueue, wire, serialBuffer,
              received, delivered, teardown>>
geoVars == <<points, distances>>
vars == <<ctrlVars, linkVars, geoVars>>

\* ------------------------------------------------------------ output lines
\* every line printed on Serial, as one record shape
Doc == [type |-> "", status |-> "", mission_id |-> "", index |-> NA,
        total |-> NA, name |-> NA, lat |-> NA, lng |-> NA, accuracy |-> NA,
        active |-> FALSE, state |-> NA]

\* Serial.print/println of a human-readable line
Text(label) == [Doc EXCEPT !.type = "text", !.status = label]
TextIdx(label, i, n) == [Doc EXCEPT !.type = "text", !.status = label,
                                    !.index = i, !.total = n]

\* sendJSON: stamps the type on the document and prints it
sendJSON(type, doc) == [doc EXCEPT !.type = type]

IsEvent(l) == l.type # "text"
RECURSIVE SelectEvents(_)
SelectEvents(s) ==
  IF s = <<>> THEN <<>>
  ELSE IF IsEvent(Head(s)) THEN <<Head(s)>> \o SelectEvents(Tail(s))
       ELSE SelectEvents(Tail(s))

\* ------------------------------------------------------------------ inputs
\* position fixes the GPS parser can hold
FixPositions == {<<0, 0>>, <<4, 3>>, <<5, 3>>}
Fixes == {[valid |-> FALSE, lat |-> 0, lng |-> 0]} \cup
         {[valid |-> TRUE, lat |-> p[1], lng |-> p[2]] : p \in FixPositions}

\* the waypoint lists of the start_mission commands: on a "line" the
\* waypoints alternate between (0, 0) and (8, 6)
PatternLat(pattern, i) == IF pattern = "line" /\ i % 2 = 0 THEN 8 ELSE 0
PatternLng(pattern, i) == IF pattern = "line" /\ i % 2 = 0 THEN 6 ELSE 0

WaypointList(len, pattern, defect) ==
  [i \in 1..len |->
     [name |-> i,
      latitude |-> IF defect = "no_latitude" /\ i = len THEN Missing
                   ELSE PatternLat(pattern, i),
      longitude |-> PatternLng(pattern, i),
      altitude |-> IF defect = "no_altitude" /\ i = len THEN Missing ELSE 5]]

SmallTotals == 0..MaxSmall
LargeTotals == Capacity..(Capacity + MaxExtra)

NoLine == [action |-> "", json |-> TRUE, waypoints |-> <<>>,
           max_speed |-> Missing, max_altitude |-> Missing,
           return_to_home |-> FALSE, total_waypoints |-> Missing,
           created_at |-> ""]

Simple(a) == [NoLine EXCEPT !.action = a]

Start(tw, list, rth) ==
  [NoLine EXCEPT !.action = "start_mission", !.waypoints = list,
                 !.max_speed = 20, !.max_altitude = 120,
                 !.return_to_home = rth, !.total_waypoints = tw,
                 !.created_at = "2025-11-03 10:42:41"]

\* well-formed missions, missions past the capacity, lists shorter than
\* total_waypoints, and a waypoint that lacks a member
StartCommands ==
  {Start(tw, WaypointList(tw, "line", "none"), rth) :
     tw \in SmallTotals, rth \in BOOLEAN}
  \cup {Start(tw, WaypointList(tw, "same", "none"), FALSE) : tw \in LargeTotals}
  \cup {Start(1, <<>>, FALSE)}
  \cup {Start(1, WaypointList(1, "line", d), FALSE) :
          d \in {"no_latitude", "no_altitude"}}

\* --------------------------------------------------------- JSON conversions
\* doc[...] read as a number: an absent member reads as 0
AsNumber(v) == IF v = Missing THEN 0 ELSE v
\* doc[...].as<String>(): an absent member reads as "null"
AsName(v) == IF v = Missing THEN NameNull ELSE v
AsString(v) == IF v = "" THEN "null" ELSE v

\* waypointArray[i]: past the end of the array every member is absent
NullElement == [name |-> Missing, latitude |-> Missing, longitude |-> Missing,
                altitude |-> Missing]
Element(arr, i) == IF i + 1 <= Len(arr) THEN arr[i + 1] ELSE NullElement

\* ---------------------------------------------------------------- distance
RECURSIVE SqrtFrom(_, _)
SqrtFrom(n, r) == IF (r + 1) * (r + 1) > n THEN r ELSE SqrtFrom(n, r + 1)
\* calculateDistance: on the local grid the great-circle distance is the
\* Euclidean one; the result is in whole metres, rounded down
calculateDistance(lat1, lng1, lat2, lng2) ==
  SqrtFrom((lat2 - lat1) * (lat2 - lat1) + (lng2 - lng1) * (lng2 - lng1), 0)
\* dist <= waypointReachedDistance on the unrounded distance
WithinReach(lat1, lng1, lat2, lng2) ==
  (lat2 - lat1) * (lat2 - lat1) + (lng2 - lng1) * (lng2 - lng1)
    <= waypointReachedDistance * waypointReachedDistance

\* ------------------------------------------------------------------- state
EmptyWaypoint == [name |-> NameEmpty, lat |-> 0, lng |-> 0, alt |-> 0,
                  reached |-> FALSE]

\* checkWaypoint did not run, or returned before it set wp
NoWaypoint == [EmptyWaypoint EXCEPT !.name = NA]

\* main.js after DOMContentLoaded on a browser profile that has stored nothing
\* and granted no port: the defaults of window.connectionSettings, and the
\* connectImmediately() that initializeArduinoStyleConnection started waits
\* in navigator.serial.getPorts()
NoDevice == "null"
\* the identity saveConnectionState stores: usbVendorId and usbProductId
Device == "usb"

\* localStorage item droneConnectionSettings: absent, or the settings saved
NoStorage ==
  [present |-> FALSE, autoConnect |-> TRUE, lastConnectedDevice |-> NoDevice]

LinkInit ==
  /\ isConnected = FALSE
  /\ reader = FALSE
  /\ writer = FALSE
  /\ serialPort = "null"
  /\ portOpen = FALSE
  /\ granted = FALSE
  /\ reading = FALSE
  /\ connecting = <<"startup">>
  /\ reconnectTimers = <<>>
  /\ autoConnect = TRUE
  /\ lastConnectedDevice = NoDevice
  /\ storage = NoStorage
  /\ statusTimers = 0
  /\ writeQueue = <<>>
  /\ wire = <<>>
  /\ serialBuffer = <<>>
  /\ received = <<>>
  /\ delivered = <<>>
  /\ lastTelemetry = "never"
  /\ connectionStatus = ""
  /\ opLog = <<>>
  /\ teardown = <<>>

\* the globals of the sketch after setup()
ControllerInit ==
  /\ missionActive = FALSE
  /\ currentWaypointIndex = -1
  /\ totalWaypoints = 0
  /\ maxSpeed = 0
  /\ maxAltitude = 0
  /\ enableReturnToHome = FALSE
  /\ missionId = ""
  /\ missionState = "WAITING"
  /\ waypoints = [i \in 0..(Capacity - 1) |-> EmptyWaypoint]
  /\ gps = [valid |-> FALSE, lat |-> 0, lng |-> 0]
  /\ command = NoLine
  /\ serialOut = <<Text("GPS Telemetry Ready"),
                   sendJSON("status", [Doc EXCEPT !.status = "system_ready"])>>
  /\ wp = NoWaypoint
  /\ memoryCorrupted = FALSE
  /\ stateWrites = <<>>

Init ==
  /\ ControllerInit
  /\ LinkInit
  /\ points = <<<<0, 0>>, <<0, 0>>, <<0, 0>>>>
  \* nothing measured yet
  /\ distances = [aa |-> -1, ab |-> -1, ba |-> -1, bc |-> -1, ac |-> -1]


\* ------------------------------------------------------------ resetMission
\* a faulty variant: the waypoint count survives the reset
resetMissionKeepsTotal ==
  /\ waypoints' = [i \in 0..(Capacity - 1) |-> EmptyWaypoint]
  /\ totalWaypoints' = totalWaypoints
  /\ currentWaypointIndex' = -1
  /\ missionId' = ""
  /\ missionState' = "WAITING"

\* clears the 20 slots, the count, the index, the id and the state; leaves
\* missionActive, maxSpeed, maxAltitude and enableReturnToHome to the caller
resetMission ==
  /\ waypoints' = [i \in 0..(Capacity - 1) |-> EmptyWaypoint]
  /\ totalWaypoints' = 0
  /\ currentWaypointIndex' = -1
  /\ missionId' = ""
  /\ missionState' = "WAITING"

resetMissionText == <<Text("Ready for next mission")>>

\* ------------------------------------------------------------- loadMission
Min(a, b) == IF a < b THEN a ELSE b

\* the slots after the copy loop: for (i = 0; i < totalWaypoints && i < 20; i++)
LoadedWaypoints(doc, tw) ==
  [i \in 0..(Capacity - 1) |->
     IF i < tw
     THEN [name |-> AsName(Element(doc.waypoints, i).name),
           lat |-> AsNumber(Element(doc.waypoints, i).latitude),
           lng |-> AsNumber(Element(doc.waypoints, i).longitude),
           alt |-> AsNumber(Element(doc.waypoints, i).altitude),
           reached |-> FALSE]
     ELSE waypoints[i]]

\* the "WPn: name (lat, lng)" lines of the copy loop
LoadedLines(wps, tw) ==
  [k \in 1..Min(tw, Capacity) |->
     [Doc EXCEPT !.type = "text", !.status = "WP", !.index = k,
                 !.name = wps[k - 1].name, !.lat = wps[k - 1].lat,
                 !.lng = wps[k - 1].lng]]

missionConfirmation(id, tw) ==
  sendJSON("mission_confirmation",
           [Doc EXCEPT !.mission_id = id, !.total = tw,
                       !.status = "mission_loaded"])

navigationStarted(id, wps) ==
  sendJSON("navigation_update",
           [Doc EXCEPT !.mission_id = id, !.status = "navigation_started",
                       !.index = 0, !.name = wps[0].name,
                       !.lat = wps[0].lat, !.lng = wps[0].lng])

\* a faulty variant: navigation starts only from the second waypoint count on
loadMissionStateOffByOne(tw) == IF tw > 1 THEN "NAVIGATING" ELSE "LOADED"

\* missionState = LOADED, then NAVIGATING if (totalWaypoints > 0)
\* the values loadMission assigns to missionState, in order
loadMissionWrites(tw) ==
  <<"LOADED">> \o (IF tw > 0 THEN <<"NAVIGATING">> ELSE <<>>)

loadMissionState(tw) == IF tw > 0 THEN "NAVIGATING" ELSE "LOADED"

loadMission(doc) ==
  LET tw == AsNumber(doc.total_waypoints)
      id == AsString(doc.created_at)
      wps == LoadedWaypoints(doc, tw)
  IN /\ totalWaypoints' = tw
     /\ maxSpeed' = AsNumber(doc.max_speed)
     /\ maxAltitude' = AsNumber(doc.max_altitude)
     /\ enableReturnToHome' = doc.return_to_home
     /\ missionId' = id
     /\ waypoints' = wps
     /\ missionActive' = TRUE
     /\ currentWaypointIndex' = 0
     /\ missionState' = loadMissionState(tw)
     /\ stateWrites' = loadMissionWrites(tw)
     /\ serialOut' =
          <<Text("Mission Loading...")>> \o LoadedLines(wps, tw)
          \o <<TextIdx("Mission:", NA, tw)>>
          \o <<missionConfirmation(id, tw)>>
          \o (IF tw > 0
              THEN <<[Doc EXCEPT !.type = "text",
                                 !.status = "Navigation started to:",
                                 !.name = wps[0].name],
                     navigationStarted(id, wps)>>
              ELSE <<>>)

\* ---------------------------------------------------------- processCommand
\* the serial phase of loop(): Serial.available() == 0, or the trimmed line
\* is empty
NoCommand ==
  /\ command' = NoLine
  /\ serialOut' = <<>>
  /\ UNCHANGED <<missionVars, gps, memoryCorrupted>>
  /\ wp' = NoWaypoint
  /\ stateWrites' = <<>>
  /\ UNCHANGED <<linkVars, geoVars>>

\* deserializeJson reports an error: processCommand returns at once
InvalidJson ==
  /\ command' = [NoLine EXCEPT !.json = FALSE]
  /\ serialOut' = <<>>
  /\ UNCHANGED <<missionVars, gps, memoryCorrupted>>
  /\ wp' = NoWaypoint
  /\ stateWrites' = <<>>
  /\ UNCHANGED <<linkVars, geoVars>>

StartMission ==
  /\ \E doc \in StartCommands :
       /\ command' = doc
       /\ loadMission(doc)
  /\ UNCHANGED <<gps, memoryCorrupted>>
  /\ wp' = NoWaypoint
  /\ UNCHANGED <<linkVars, geoVars>>

\* a faulty variant: the index is reported one-based, as the console shows it
missionStatusOneBased ==
  sendJSON("mission_status",
           [Doc EXCEPT !.active = missionActive,
                       !.state = MissionStateCode(missionState),
                       !.index = currentWaypointIndex + 1,
                       !.total = totalWaypoints])

missionStatus ==
  sendJSON("mission_status",
           [Doc EXCEPT !.active = missionActive,
                       !.state = MissionStateCode(missionState),
                       !.index = currentWaypointIndex,
                       !.total = totalWaypoints])

GetStatus ==
  /\ command' = Simple("get_status")
  /\ serialOut' = <<missionStatus>>
  /\ UNCHANGED <<missionVars, gps, memoryCorrupted>>
  /\ wp' = NoWaypoint
  /\ stateWrites' = <<>>
  /\ UNCHANGED <<linkVars, geoVars>>

EmergencyStop ==
  /\ command' = Simple("emergency_stop")
  /\ missionActive' = FALSE
  /\ resetMission
  /\ stateWrites' = <<"WAITING", "WAITING">>
  /\ serialOut' = <<Text("EMERGENCY STOP")>> \o resetMissionText
  /\ UNCHANGED <<maxSpeed, maxAltitude, enableReturnToHome, gps,
                 memoryCorrupted>>
  /\ wp' = NoWaypoint
  /\ UNCHANGED <<linkVars, geoVars>>

returnHomeAccepted == missionActive

ReturnHome ==
  /\ command' = Simple("return_home")
  /\ IF returnHomeAccepted
     THEN /\ missionState' = "COMPLETE"
          /\ stateWrites' = <<"COMPLETE">>
          /\ serialOut' =
               <<Text("Return to Home"),
                 sendJSON("navigation_update",
                          [Doc EXCEPT !.status = "returning_home"])>>
     ELSE /\ missionState' = missionState
          /\ stateWrites' = <<>>
          /\ serialOut' = <<>>
  /\ UNCHANGED <<missionActive, currentWaypointIndex, totalWaypoints,
                 maxSpeed, maxAltitude, enableReturnToHome, missionId,
                 waypoints, gps, memoryCorrupted>>
  /\ wp' = NoWaypoint
  /\ UNCHANGED <<linkVars, geoVars>>

\* an action that is none of the four: no branch of processCommand matches
UnknownAction ==
  /\ command' = Simple("self_test")
  /\ serialOut' = <<>>
  /\ UNCHANGED <<missionVars, gps, memoryCorrupted>>
  /\ wp' = NoWaypoint
  /\ stateWrites' = <<>>
  /\ UNCHANGED <<linkVars, geoVars>>


\* ------------------------------------------------------------- loop phases
\* while (GPS.available() > 0) gps.encode(GPS.read()): the parser ends up
\* holding any fix, or the one it held
GpsEncode ==
  /\ gps' \in Fixes
  /\ command' = NoLine
  /\ serialOut' = <<>>
  /\ UNCHANGED <<missionVars, memoryCorrupted>>
  /\ wp' = NoWaypoint
  /\ stateWrites' = <<>>
  /\ UNCHANGED <<linkVars, geoVars>>

telemetryLines ==
  IF gps.valid
  THEN <<sendJSON("telemetry", [Doc EXCEPT !.lat = gps.lat, !.lng = gps.lng])>>
  ELSE <<sendJSON("status", [Doc EXCEPT !.status = "waiting_gps_fix"])>>

\* if (millis() - lastSend >= sendInterval) ...
SendTelemetry ==
  /\ command' = NoLine
  /\ \E due \in BOOLEAN : serialOut' = IF due THEN telemetryLines ELSE <<>>
  /\ UNCHANGED <<missionVars, gps, memoryCorrupted>>
  /\ wp' = NoWaypoint
  /\ stateWrites' = <<>>
  /\ UNCHANGED <<linkVars, geoVars>>

\* ----------------------------------------------------------- checkWaypoint
\* what lies in memory past waypoints[19]: any bytes
Garbage == {[name |-> NameEmpty, lat |-> la, lng |-> 0, alt |-> 0,
             reached |-> r] : la \in {0, 40}, r \in BOOLEAN}

\* the values &waypoints[i] can denote: the slot, or for i >= 20 whatever is
\* stored behind the array
Slots(i) == IF i < Capacity THEN {waypoints[i]} ELSE Garbage

completeMissionLines ==
  <<TextIdx("Mission complete!", NA, totalWaypoints)>>
  \o (IF enableReturnToHome
      THEN <<Text("Returning to home"),
             sendJSON("navigation_update",
                      [Doc EXCEPT !.mission_id = missionId,
                                  !.status = "returning_home"])>>
      ELSE <<sendJSON("navigation_update",
                      [Doc EXCEPT !.mission_id = missionId,
                                  !.status = "mission_complete"])>>)
  \o resetMissionText

\* a faulty variant: the mission-active flag is left as it was
completeMissionStaysActive ==
  /\ missionActive' = missionActive
  /\ stateWrites' = <<"COMPLETE", "WAITING">>
  /\ resetMission

\* missionState = COMPLETE and missionActive = false, then resetMission()
completeMission ==
  /\ missionActive' = FALSE
  /\ stateWrites' = <<"COMPLETE", "WAITING">>
  /\ resetMission

waypointReached(target) ==
  sendJSON("navigation_update",
           [Doc EXCEPT !.mission_id = missionId, !.status = "waypoint_reached",
                       !.index = currentWaypointIndex, !.name = target.name,
                       !.accuracy = calculateDistance(gps.lat, gps.lng,
                                                      target.lat, target.lng),
                       !.lat = gps.lat, !.lng = gps.lng])

\* a faulty variant: the event carries the index of the waypoint just reached
navigatingToCurrent(next) ==
  sendJSON("navigation_update",
           [Doc EXCEPT !.mission_id = missionId, !.status = "navigating_to",
                       !.index = currentWaypointIndex, !.name = next.name,
                       !.lat = next.lat, !.lng = next.lng])

navigatingTo(next) ==
  sendJSON("navigation_update",
           [Doc EXCEPT !.mission_id = missionId, !.status = "navigating_to",
                       !.index = currentWaypointIndex + 1, !.name = next.name,
                       !.lat = next.lat, !.lng = next.lng])

checkWaypointReturns ==
  \/ missionState # "NAVIGATING"
  \/ currentWaypointIndex < 0
  \/ currentWaypointIndex >= totalWaypoints

Arrived(target) ==
  WithinReach(gps.lat, gps.lng, target.lat, target.lng) /\ ~target.reached

checkWaypoint ==
  IF checkWaypointReturns
  THEN /\ serialOut' = <<>>
       /\ wp' = NoWaypoint
       /\ stateWrites' = <<>>
       /\ UNCHANGED <<missionVars, memoryCorrupted>>
  ELSE \E target \in Slots(currentWaypointIndex) :
         /\ wp' = target
         /\ IF ~Arrived(target)
            THEN /\ serialOut' = <<>>
                 /\ stateWrites' = <<>>
                 /\ UNCHANGED <<missionVars, memoryCorrupted>>
            ELSE /\ memoryCorrupted' =
                      (memoryCorrupted \/ currentWaypointIndex >= Capacity)
                 /\ UNCHANGED <<maxSpeed, maxAltitude, enableReturnToHome>>
                 /\ IF currentWaypointIndex + 1 < totalWaypoints
                    THEN /\ \E next \in Slots(currentWaypointIndex + 1) :
                              serialOut' =
                                <<TextIdx("Waypoint reached:",
                                          currentWaypointIndex + 1,
                                          totalWaypoints),
                                  waypointReached(target),
                                  [Doc EXCEPT !.type = "text",
                                              !.status = "Next target:",
                                              !.name = next.name],
                                  navigatingTo(next)>>
                         /\ currentWaypointIndex' = currentWaypointIndex + 1
                         /\ waypoints' =
                              IF currentWaypointIndex < Capacity
                              THEN [waypoints EXCEPT
                                      ![currentWaypointIndex].reached = TRUE]
                              ELSE waypoints
                         /\ stateWrites' = <<>>
                         /\ UNCHANGED <<missionActive, totalWaypoints,
                                        missionId, missionState>>
                    ELSE /\ serialOut' =
                              <<TextIdx("Waypoint reached:",
                                        currentWaypointIndex + 1,
                                        totalWaypoints),
                                waypointReached(target)>>
                              \o completeMissionLines
                         /\ completeMission

\* a faulty variant: the validity of the fix is not looked at
tickRunsAnyFix == missionState = "NAVIGATING"

\* the condition under which loop() calls checkWaypoint
tickRuns == missionState = "NAVIGATING" /\ gps.valid

\* if (missionState == NAVIGATING && gps.location.isValid()) checkWaypoint();
Navigate ==
  /\ command' = NoLine
  /\ UNCHANGED <<gps, linkVars, geoVars>>
  /\ IF tickRuns
     THEN checkWaypoint
     ELSE /\ serialOut' = <<>>
          /\ wp' = NoWaypoint
          /\ stateWrites' = <<>>
          /\ UNCHANGED <<missionVars, memoryCorrupted>>

\* if (millis() - lastStatusUpdate >= statusUpdateInterval) ...
StatusReport ==
  /\ command' = NoLine
  /\ UNCHANGED <<missionVars, gps, memoryCorrupted>>
  /\ wp' = NoWaypoint
  /\ stateWrites' = <<>>
  /\ UNCHANGED <<linkVars, geoVars>>
  /\ \E due \in BOOLEAN :
       IF due /\ missionState = "NAVIGATING"
              /\ currentWaypointIndex < totalWaypoints
       THEN \E target \in Slots(currentWaypointIndex) :
              serialOut' =
                <<[Doc EXCEPT !.type = "text", !.status = "Target:",
                              !.name = target.name,
                              !.accuracy = calculateDistance(gps.lat, gps.lng,
                                                             target.lat,
                                                             target.lng),
                              !.index = currentWaypointIndex + 1,
                              !.total = totalWaypoints]>>
       ELSE serialOut' = <<>>

Next ==
  \/ NoCommand
  \/ GpsEncode
  \/ InvalidJson
  \/ StartMission
  \/ GetStatus
  \/ EmergencyStop
  \/ ReturnHome
  \/ UnknownAction
  \/ SendTelemetry
  \/ Navigate
  \/ StatusReport

Spec == Init /\ [][Next]_vars

\* loop() is called again and again by the runtime
FairSpec == Spec /\ WF_vars(Next)

\* the same loop with an operator who sends nothing while a return_home is
\* pending (missionState = COMPLETE is left only by a command or a reset)
NextQuiet ==
  \/ NoCommand
  \/ GpsEncode
  \/ SendTelemetry
  \/ Navigate
  \/ StatusReport
  \/ /\ missionState # "COMPLETE"
     /\ \/ InvalidJson
        \/ StartMission
        \/ GetStatus
        \/ EmergencyStop
        \/ ReturnHome
        \/ UnknownAction

QuietSpec == Init /\ [][NextQuiet]_vars /\ WF_vars(NextQuiet)

\* the same loop with an operator who sends nothing while a mission is being
\* flown
NextArrival ==
  \/ NoCommand
  \/ GpsEncode
  \/ SendTelemetry
  \/ Navigate
  \/ StatusReport
  \/ /\ missionState # "NAVIGATING"
     /\ \/ InvalidJson
        \/ StartMission
        \/ GetStatus
        \/ EmergencyStop
        \/ ReturnHome
        \/ UnknownAction

\* the parser holds a valid fix within waypointReachedDistance of what
\* checkWaypoint finds at waypoints[currentWaypointIndex]
NearTarget ==
  /\ missionState = "NAVIGATING"
  /\ gps.valid
  /\ \E target \in Slots(currentWaypointIndex) :
       WithinReach(gps.lat, gps.lng, target.lat, target.lng)

\* the vehicle keeps getting to the target of the moment, and loop() keeps
\* running checkWaypoint while it is there
ArrivalSpec ==
  /\ Init /\ [][NextArrival]_vars
  /\ SF_vars(GpsEncode /\ NearTarget')
  /\ SF_vars(Navigate /\ NearTarget)

TypeOK ==
  /\ missionActive \in BOOLEAN
  /\ missionState \in States


\* =================================================== the operator console
\* main.js: the connection manager over the Web Serial port. Each action is
\* one run of a handler between two points where the event loop can take
\* another one; connectImmediately is split at its await of getPorts().
\* disconnectDevice is one step here, the run in which no other handler is
\* taken during its awaits; further down it is taken one await at a time.
Entry(level, msg) == [level |-> level, msg |-> msg]

\* the get_status timers set after a connect, the chunks handed to
\* writer.write and not yet written, and what of the line now going out has
\* reached the port
sendVars == <<statusTimers, writeQueue, wire>>

\* the read buffer, and with it what the port handed over since the
\* connection was made and the lines cut out of it
frameVars == <<serialBuffer, received, delivered>>

Settings(ac, dev) ==
  [present |-> TRUE, autoConnect |-> ac, lastConnectedDevice |-> dev]

\* the values in a sequence
Range(s) == {s[k] : k \in 1..Len(s)}

Remove(s, i) == [k \in 1..(Len(s) - 1) |-> IF k < i THEN s[k] ELSE s[k + 1]]

\* setupSerialCommunication, isConnected = true, the status line and the
\* readSerialData() call that follow it in every connect path
Established ==
  /\ reader' = TRUE
  /\ writer' = TRUE
  /\ isConnected' = TRUE
  /\ reading' = TRUE
  /\ connectionStatus' = "Connected"

\* setTimeout(() => sendCommand({ action: 'get_status' }), 500)
statusTimerSet ==
  /\ statusTimers < MaxPending
  /\ statusTimers' = statusTimers + 1

\* pipeTo on serialPort.readable throws while a reader of ours still holds it
setupThrows == reader

\* saveConnectionState: the descriptor goes into window.connectionSettings
\* and then into localStorage; a throwing setItem is swallowed
saveConnectionState(stored) ==
  /\ lastConnectedDevice' = Device
  /\ storage' = IF stored THEN Settings(autoConnect, Device) ELSE storage

clearConnectionState(stored) ==
  /\ lastConnectedDevice' = NoDevice
  /\ storage' = IF stored THEN Settings(autoConnect, NoDevice) ELSE storage

\* what disconnectDevice writes to the console and the system log: one
\* console.warn per failed teardown step, and the error of the outer catch
\* when localStorage.setItem throws in clearConnectionState
disconnectLog(failR, failW, failP, stored) ==
  (IF reader /\ failR
   THEN <<Entry("console.warn", "Reader cancel error")>> ELSE <<>>)
  \o (IF writer /\ failW
      THEN <<Entry("console.warn", "Writer close error")>> ELSE <<>>)
  \o (IF serialPort # "null" /\ failP
      THEN <<Entry("console.warn", "Serial port close error")>> ELSE <<>>)
  \o <<Entry("INFO", "Device disconnected")>>
  \o (IF stored THEN <<>>
      ELSE <<Entry("ERROR", "Error during disconnection")>>)

\* disconnectDevice: each teardown step in its own try/catch, the reference
\* dropped after it whether it failed or not; a port whose close() failed
\* stays open
disconnectDevice(failR, failW, failP, stored) ==
  /\ isConnected' = FALSE
  /\ reader' = FALSE
  /\ writer' = FALSE
  /\ serialPort' = "null"
  /\ portOpen' = (portOpen /\ (serialPort = "null" \/ failP))
  /\ reading' = FALSE
  /\ connectionStatus' = "Disconnected"
  /\ clearConnectionState(stored)
  /\ writeQueue' = <<>>
  /\ wire' = <<>>
  /\ serialBuffer' = <<>>
  /\ received' = <<>>
  /\ delivered' = <<>>

\* handleConnectionLoss: if (!window.isConnected) return;
handleConnectionLossRuns(connected) == connected

\* connectImmediately: if (window.isConnected) return;
connectImmediatelyReturns == isConnected

\* a faulty variant: the failure is logged as an error, as connectManually does
silentConnectGivesUpAsError(msg) ==
  /\ opLog' = <<Entry("ERROR", msg)>>
  /\ connectionStatus' = "Connection Failed"
  /\ UNCHANGED <<isConnected, reader, writer, reading, portOpen,
                 lastConnectedDevice, storage, statusTimers>>

\* the catch of connectImmediately and its no-port branch: an INFO entry and
\* the status line, nothing else
silentConnectGivesUp(msg) ==
  /\ opLog' = <<Entry("INFO", msg)>>
  /\ connectionStatus' = "Click Connect"
  /\ UNCHANGED <<isConnected, reader, writer, reading, portOpen,
                 lastConnectedDevice, storage, statusTimers>>

\* connectImmediately from the resolution of getPorts() on
SilentConnectResolve ==
  /\ connecting # <<>>
  /\ \E i \in 1..Len(connecting), ok \in BOOLEAN, stored \in BOOLEAN :
       /\ connecting' = Remove(connecting, i)
       /\ IF ~granted
          THEN /\ silentConnectGivesUp("No devices found")
               /\ UNCHANGED serialPort
          ELSE /\ serialPort' = "port"
               /\ IF portOpen
                  THEN IF ~setupThrows /\ ok
                       THEN /\ Established
                            /\ opLog' =
                                 <<Entry("INFO", "Device already connected")>>
                            /\ UNCHANGED <<portOpen, lastConnectedDevice,
                                           storage, statusTimers>>
                       ELSE silentConnectGivesUp("Device not connected")
                  ELSE IF ok
                       THEN /\ portOpen' = TRUE
                            /\ Established
                            /\ saveConnectionState(stored)
                            /\ statusTimerSet
                            /\ opLog' = <<Entry("INFO",
                                            "Device connected automatically")>>
                       ELSE silentConnectGivesUp("Device not connected")
  /\ UNCHANGED <<granted, reconnectTimers, autoConnect, lastTelemetry,
                 writeQueue, wire, frameVars, ctrlVars, geoVars, teardown>>

\* a timer set by handleConnectionLoss or by the noise branch of
\* readSerialData runs out: connectImmediately() up to its first await
ReconnectTimerFires ==
  /\ reconnectTimers # <<>>
  /\ reconnectTimers' = Tail(reconnectTimers)
  /\ IF connectImmediatelyReturns
     THEN connecting' = connecting
     ELSE /\ Len(connecting) < MaxPending
          /\ connecting' = Append(connecting, "reconnect")
  /\ opLog' = <<>>
  /\ UNCHANGED <<isConnected, reader, writer, serialPort, portOpen, granted,
                 reading, autoConnect, lastConnectedDevice, storage,
                 lastTelemetry, connectionStatus, sendVars, frameVars,
                 ctrlVars, geoVars, teardown>>

\* connectManually when not connected: requestPort, open unless the port is
\* readable, setup, isConnected = true; its catch logs an error
requestAndOpen(select, ok, stored) ==
  IF ~select
  THEN /\ opLog' = <<Entry("INFO", "Select serial device..."),
                     Entry("ERROR", "No device selected")>>
       /\ connectionStatus' = "Connection Failed"
       /\ UNCHANGED <<isConnected, reader, writer, serialPort, portOpen,
                      granted, reading, lastConnectedDevice, storage,
                      sendVars, frameVars>>
  ELSE /\ granted' = TRUE
       /\ serialPort' = "port"
       /\ IF ok /\ ~(portOpen /\ setupThrows)
          THEN /\ portOpen' = TRUE
               /\ Established
               /\ saveConnectionState(stored)
               /\ statusTimerSet
               /\ UNCHANGED <<writeQueue, wire, frameVars>>
               /\ opLog' = <<Entry("INFO", "Select serial device..."),
                             Entry("INFO", "Device connected successfully")>>
          ELSE /\ opLog' = <<Entry("INFO", "Select serial device..."),
                             Entry("ERROR", "Connection error")>>
               /\ connectionStatus' = "Connection Failed"
               /\ UNCHANGED <<isConnected, reader, writer, portOpen,
                              reading, lastConnectedDevice, storage,
                              sendVars, frameVars>>

\* the Connect button: disconnects when connected, else asks for a port
ConnectManually ==
  /\ \E select \in BOOLEAN, ok \in BOOLEAN, failR \in BOOLEAN,
        failW \in BOOLEAN, failP \in BOOLEAN, stored \in BOOLEAN :
       IF isConnected
       THEN /\ disconnectDevice(failR, failW, failP, stored)
            /\ opLog' = disconnectLog(failR, failW, failP, stored)
            /\ UNCHANGED <<granted, statusTimers>>
       ELSE requestAndOpen(select, ok, stored)
  /\ UNCHANGED <<connecting, reconnectTimers, autoConnect, lastTelemetry,
                 ctrlVars, geoVars, teardown>>

\* the errors reader.read() rejects with, by the branch readSerialData takes
ReadErrors == {"NetworkError", "InvalidStateError", "Framing error", "other"}

readErrorMessage(kind) ==
  IF kind = "NetworkError" THEN "Device disconnected unexpectedly"
  ELSE IF kind = "InvalidStateError" THEN "Serial port closed unexpectedly"
  ELSE IF kind = "Framing error" THEN "Serial read error: Framing error"
  ELSE "Serial read error"

\* errorMessage.includes('Framing') || 'Parity' || 'Overrun'
IsNoise(kind) == kind = "Framing error"

\* the catch of readSerialData: on noise disconnectDevice and a timer of its
\* own; otherwise disconnectDevice and then, if autoConnect,
\* handleConnectionLoss
ReadError ==
  /\ reading
  /\ \E kind \in ReadErrors, failR \in BOOLEAN, failW \in BOOLEAN,
        failP \in BOOLEAN, stored \in BOOLEAN :
       IF ~isConnected
       THEN /\ reading' = FALSE
            /\ opLog' = <<>>
            /\ UNCHANGED <<isConnected, reader, writer, serialPort, portOpen,
                           lastConnectedDevice, storage, connectionStatus,
                           reconnectTimers, writeQueue, wire,
                           frameVars>>
       ELSE /\ disconnectDevice(failR, failW, failP, stored)
            /\ IF IsNoise(kind)
               THEN /\ Len(reconnectTimers) < MaxPending
                    /\ reconnectTimers' = Append(reconnectTimers, "read")
                    /\ opLog' =
                         <<Entry("ERROR", readErrorMessage(kind)),
                           Entry("WARNING", "Signal noise detected")>>
                         \o disconnectLog(failR, failW, failP, stored)
               ELSE /\ opLog' =
                         <<Entry("ERROR", readErrorMessage(kind)),
                           Entry("ERROR", readErrorMessage(kind))>>
                         \o disconnectLog(failR, failW, failP, stored)
                         \o (IF autoConnect
                                /\ handleConnectionLossRuns(isConnected')
                             THEN <<Entry("WARNING", "Connection lost")>>
                             ELSE <<>>)
                    /\ IF autoConnect /\ handleConnectionLossRuns(isConnected')
                       THEN /\ Len(reconnectTimers) < MaxPending
                            /\ reconnectTimers' =
                                 Append(reconnectTimers, "loss")
                       ELSE reconnectTimers' = reconnectTimers
  /\ UNCHANGED <<granted, connecting, autoConnect, lastTelemetry,
                 statusTimers, ctrlVars, geoVars, teardown>>

\* reader.read() resolves with done: the loop logs and breaks
StreamEnds ==
  /\ reading
  /\ reading' = FALSE
  /\ opLog' = <<Entry("WARNING", "Serial stream ended")>>
  /\ UNCHANGED <<isConnected, reader, writer, serialPort, portOpen, granted,
                 connecting, reconnectTimers, autoConnect,
                 lastConnectedDevice, storage, lastTelemetry,
                 connectionStatus, sendVars, frameVars,
                 ctrlVars, geoVars, teardown>>

\* a telemetry line comes through the read loop: lastTelemetryTime = now
Telemetry ==
  /\ reading /\ isConnected
  /\ lastTelemetry' = "fresh"
  /\ opLog' = <<>>
  /\ UNCHANGED <<isConnected, reader, writer, serialPort, portOpen, granted,
                 reading, connecting, reconnectTimers, autoConnect,
                 lastConnectedDevice, storage, connectionStatus, sendVars, frameVars,
                 ctrlVars, geoVars, teardown>>

\* more than connectionTimeoutMs go by after the last telemetry line
Silence ==
  /\ lastTelemetry = "fresh"
  /\ lastTelemetry' = "stale"
  /\ opLog' = <<>>
  /\ UNCHANGED <<isConnected, reader, writer, serialPort, portOpen, granted,
                 reading, connecting, reconnectTimers, autoConnect,
                 lastConnectedDevice, storage, connectionStatus, sendVars, frameVars,
                 ctrlVars, geoVars, teardown>>

\* the 5-second interval of initializeConnectionMonitoring; the 1-second
\* timer of the firing before has run out by the next firing
HealthCheck ==
  /\ "health" \notin Range(reconnectTimers)
  /\ IF isConnected /\ lastTelemetry = "stale"
     THEN IF autoConnect /\ handleConnectionLossRuns(isConnected)
          THEN /\ Len(reconnectTimers) < MaxPending
               /\ reconnectTimers' = Append(reconnectTimers, "health")
               /\ connectionStatus' = "Reconnecting..."
               /\ opLog' = <<Entry("WARNING", "No data received"),
                             Entry("WARNING", "Connection lost")>>
          ELSE /\ reconnectTimers' = reconnectTimers
               /\ connectionStatus' = "No Data Received"
               /\ opLog' = <<Entry("WARNING", "No data received")>>
     ELSE /\ opLog' = <<>>
          /\ UNCHANGED <<reconnectTimers, connectionStatus>>
  /\ UNCHANGED <<isConnected, reader, writer, serialPort, portOpen, granted,
                 reading, connecting, autoConnect, lastConnectedDevice,
                 storage, lastTelemetry, sendVars, frameVars,
                 ctrlVars, geoVars, teardown>>

\* the auto-connect checkbox
ToggleAutoConnect ==
  /\ autoConnect' = ~autoConnect
  /\ storage' = Settings(~autoConnect, lastConnectedDevice)
  /\ opLog' = <<Entry("INFO", "Auto-connect toggled")>>
  /\ UNCHANGED <<isConnected, reader, writer, serialPort, portOpen, granted,
                 reading, connecting, reconnectTimers, lastConnectedDevice,
                 lastTelemetry, connectionStatus, sendVars, frameVars,
                 ctrlVars, geoVars, teardown>>

\* the page is loaded again: the browser closes the port and drops timers
\* and tasks, DOMContentLoaded sets the defaults,
\* initializeArduinoStyleConnection merges the stored settings over them and
\* starts connectImmediately if autoConnect is set
Reload ==
  /\ isConnected' = FALSE
  /\ reader' = FALSE
  /\ writer' = FALSE
  /\ serialPort' = "null"
  /\ portOpen' = FALSE
  /\ reading' = FALSE
  /\ reconnectTimers' = <<>>
  /\ autoConnect' = storage.autoConnect
  /\ lastConnectedDevice' = storage.lastConnectedDevice
  /\ connecting' = IF storage.autoConnect THEN <<"startup">> ELSE <<>>
  /\ lastTelemetry' = "never"
  /\ connectionStatus' = ""
  /\ opLog' = <<>>
  /\ statusTimers' = 0
  /\ writeQueue' = <<>>
  /\ wire' = <<>>
  /\ serialBuffer' = <<>>
  /\ received' = <<>>
  /\ delivered' = <<>>
  /\ teardown' = <<>>
  /\ UNCHANGED <<granted, storage, ctrlVars, geoVars>>

\* ------------------------------------------ disconnectDevice by its awaits
\* disconnectDevice is async: it clears isConnected, then awaits
\* reader.cancel(), writer.close() and serialPort.close() in turn, and the
\* event loop can run other handlers at each await. The actions above take
\* the whole call in one step; the actions below take it one await at a time.
stepError(stage) ==
  IF stage = "reader" THEN "Reader cancel error"
  ELSE IF stage = "writer" THEN "Writer close error"
  ELSE "Serial port close error"

\* disconnectDevice from the point stage ("begin", or the await it resumes
\* from) to its next await or its end, and then what its caller does after
\* its await of it: the user's click nothing, the noise branch of
\* readSerialData a timer, the other branch handleConnectionLoss if
\* autoConnect is set. i is the call's place in teardown, 0 for a new call
teardownFrom(stage, caller, i, before, fail, stored) ==
  LET kept(at) == IF i = 0
                  THEN Append(teardown, [stage |-> at, caller |-> caller])
                  ELSE [teardown EXCEPT ![i].stage = at]
      rest == IF i = 0 THEN teardown ELSE Remove(teardown, i)
      r == IF stage = "reader" THEN FALSE ELSE reader
      w == IF stage = "writer" THEN FALSE ELSE writer
      p == IF stage = "port" THEN "null" ELSE serialPort
      next == IF stage = "begin" /\ r THEN "reader"
              ELSE IF stage \in {"begin", "reader"} /\ w THEN "writer"
              ELSE IF stage # "port" /\ p # "null" THEN "port"
              ELSE "done"
      warn == IF stage # "begin" /\ fail
              THEN <<Entry("console.warn", stepError(stage))>> ELSE <<>>
      connected == IF stage = "begin" THEN FALSE ELSE isConnected
      lost == /\ caller = "loss"
              /\ autoConnect
              /\ handleConnectionLossRuns(connected /\ stored)
  IN  /\ portOpen' = (portOpen /\ (stage # "port" \/ fail))
      /\ reading' = (reading /\ ~(stage = "begin" /\ reader))
      /\ writeQueue' = IF stage = "writer" THEN <<>> ELSE writeQueue
      /\ wire' = IF stage = "writer" THEN <<>> ELSE wire
      /\ IF next # "done"
         THEN /\ teardown' = kept(next)
              /\ isConnected' = connected
              /\ reader' = r
              /\ writer' = w
              /\ serialPort' = p
              /\ opLog' = before \o warn
              /\ UNCHANGED <<connectionStatus, lastConnectedDevice, storage,
                             reconnectTimers, frameVars>>
         ELSE /\ teardown' = rest
              /\ isConnected' = (connected /\ stored)
              /\ reader' = (r /\ stored)
              /\ writer' = (w /\ stored)
              /\ serialPort' = IF stored THEN p ELSE "null"
              /\ serialBuffer' = <<>>
              /\ received' = <<>>
              /\ delivered' = <<>>
              /\ clearConnectionState(stored)
              /\ connectionStatus' =
                   IF lost THEN "Reconnecting..." ELSE "Disconnected"
              /\ opLog' = before \o warn
                           \o <<Entry("INFO", "Device disconnected")>>
                           \o (IF stored THEN <<>>
                               ELSE <<Entry("ERROR",
                                            "Error during disconnection")>>)
                           \o (IF lost
                               THEN <<Entry("WARNING", "Connection lost")>>
                               ELSE <<>>)
              /\ IF caller = "noise" \/ lost
                 THEN /\ Len(reconnectTimers) < MaxPending
                      /\ reconnectTimers' =
                           Append(reconnectTimers,
                                  IF lost THEN "loss" ELSE "read")
                 ELSE reconnectTimers' = reconnectTimers

\* a call of disconnectDevice up to its first await
teardownBegins(caller, before, stored) ==
  /\ Len(teardown) < MaxPending
  /\ teardownFrom("begin", caller, 0, before, FALSE, stored)

\* the promise a disconnectDevice call awaits settles: it drops the
\* reference, whatever it holds by now, and goes on
TeardownResumes ==
  /\ \E i \in 1..Len(teardown), fail \in BOOLEAN, stored \in BOOLEAN :
       teardownFrom(teardown[i].stage, teardown[i].caller, i, <<>>, fail,
                    stored)
  /\ UNCHANGED <<granted, connecting, autoConnect, lastTelemetry,
                 statusTimers, ctrlVars, geoVars>>

\* the Connect button, the disconnect taken up to its first await
ConnectButton ==
  /\ \E select \in BOOLEAN, ok \in BOOLEAN, stored \in BOOLEAN :
       IF isConnected
       THEN /\ teardownBegins("user", <<>>, stored)
            /\ UNCHANGED <<granted, statusTimers>>
       ELSE /\ requestAndOpen(select, ok, stored)
            /\ UNCHANGED <<reconnectTimers, teardown>>
  /\ UNCHANGED <<connecting, autoConnect, lastTelemetry, ctrlVars, geoVars>>

\* the catch of readSerialData, its disconnectDevice taken up to its first
\* await
ReadFails ==
  /\ reading
  /\ \E kind \in ReadErrors, stored \in BOOLEAN :
       IF ~isConnected
       THEN /\ reading' = FALSE
            /\ opLog' = <<>>
            /\ UNCHANGED <<isConnected, reader, writer, serialPort, portOpen,
                           lastConnectedDevice, storage, connectionStatus,
                           reconnectTimers, writeQueue, wire, frameVars,
                           teardown>>
       ELSE teardownBegins(IF IsNoise(kind) THEN "noise" ELSE "loss",
                           <<Entry("ERROR", readErrorMessage(kind)),
                             IF IsNoise(kind)
                             THEN Entry("WARNING", "Signal noise detected")
                             ELSE Entry("ERROR", readErrorMessage(kind))>>,
                           stored)
  /\ UNCHANGED <<granted, connecting, autoConnect, lastTelemetry,
                 statusTimers, ctrlVars, geoVars>>

RaceNext ==
  \/ SilentConnectResolve
  \/ ReconnectTimerFires
  \/ ConnectButton
  \/ TeardownResumes
  \/ ReadFails

RaceSpec == Init /\ [][RaceNext]_vars

\* the console on a link without faults: the only disconnect is the user's
ExplicitNext ==
  \/ SilentConnectResolve
  \/ ReconnectTimerFires
  \/ ConnectManually
  \/ Telemetry
  \/ Silence
  \/ HealthCheck

ExplicitSpec == Init /\ [][ExplicitNext]_vars

\* --------------------------------------------------------------- sendCommand
\* if (jsonCommand.length > 4096)
MaxCommandLength == 4096

\* what is handed to sendCommand: whether it is an object, and the length of
\* its JSON.stringify
Command(name, object, length) ==
  [name |-> name, object |-> object, length |-> length]

\* {"action":"get_status"}
GetStatusCommand == Command("get_status", TRUE, 23)

\* the start_mission of the mission button with a waypoint list that just
\* fits and one that does not, and a call of window.sendCommand with a string
UICommands ==
  {Command("start_mission", TRUE, MaxCommandLength),
   Command("start_mission", TRUE, MaxCommandLength + 1),
   Command("text", FALSE, 0)}

\* jsonCommand + '\n' as the port sends it: the JSON text, then the newline
Line(cmd) ==
  <<[cmd |-> cmd.name, part |-> "json", length |-> cmd.length],
    [cmd |-> cmd.name, part |-> "\n", length |-> cmd.length]>>

\* a faulty variant: the new chunk goes before the chunks that wait
writeEnqueueFirst(queue, chunk) == <<chunk>> \o queue

\* writer.write(chunk): the stream puts the chunk behind the ones that wait
writeEnqueue(queue, chunk) == Append(queue, chunk)

\* a faulty variant: the limit is taken one too high
tooLargeAbove(cmd) == cmd.length > MaxCommandLength + 1

tooLarge(cmd) == cmd.length > MaxCommandLength

\* sendCommand returns false after one log entry and writes nothing
sendRefused(level, msg) ==
  /\ opLog' = <<Entry(level, msg), Entry("return", "false")>>
  /\ UNCHANGED <<writeQueue, wire>>

\* sendCommand up to its await of writer.write
sendCommand(cmd) ==
  IF ~isConnected \/ ~writer \/ serialPort = "null"
  THEN sendRefused("WARNING", "Device not connected - cannot send command")
  ELSE IF ~cmd.object
  THEN sendRefused("ERROR", "Invalid command format")
  ELSE IF tooLarge(cmd)
  THEN sendRefused("ERROR", "Command too large")
  ELSE /\ Len(writeQueue) < MaxQueue
       /\ writeQueue' = writeEnqueue(writeQueue, Line(cmd))
       /\ wire' = wire
       /\ opLog' = <<>>

\* a button, or another script, calls sendCommand
UISend ==
  /\ \E cmd \in UICommands : sendCommand(cmd)
  /\ UNCHANGED <<isConnected, reader, writer, serialPort, portOpen, granted,
                 reading, connecting, reconnectTimers, autoConnect,
                 lastConnectedDevice, storage, lastTelemetry,
                 connectionStatus, statusTimers, frameVars, ctrlVars, geoVars, teardown>>

\* the timer set after a connect runs out
StatusTimerFires ==
  /\ statusTimers > 0
  /\ statusTimers' = statusTimers - 1
  /\ sendCommand(GetStatusCommand)
  /\ UNCHANGED <<isConnected, reader, writer, serialPort, portOpen, granted,
                 reading, connecting, reconnectTimers, autoConnect,
                 lastConnectedDevice, storage, lastTelemetry,
                 connectionStatus, frameVars, ctrlVars, geoVars, teardown>>

\* the port sends the next piece of the chunk at the head of the writer's
\* queue; with the last piece the write resolves and sendCommand logs and
\* returns true. wire is the line going out, up to and with its newline
Transmit ==
  /\ writeQueue # <<>>
  /\ LET chunk == Head(writeQueue)
         piece == Head(chunk)
     IN /\ wire' = IF wire # <<>> /\ wire[Len(wire)].part = "\n"
                   THEN <<piece>>
                   ELSE Append(wire, piece)
        /\ IF Len(chunk) = 1
           THEN /\ writeQueue' = Tail(writeQueue)
                /\ opLog' = <<Entry("INFO", "Command sent"),
                              Entry("return", "true")>>
           ELSE /\ writeQueue' = <<Tail(chunk)>> \o Tail(writeQueue)
                /\ opLog' = <<>>
  /\ UNCHANGED <<isConnected, reader, writer, serialPort, portOpen, granted,
                 reading, connecting, reconnectTimers, autoConnect,
                 lastConnectedDevice, storage, lastTelemetry,
                 connectionStatus, statusTimers, frameVars, ctrlVars, geoVars, teardown>>

\* the errors writer.write rejects with, by the branch sendCommand takes
WriteErrors == {"NetworkError", "InvalidStateError", "other"}

writeErrorMessage(kind) ==
  IF kind = "NetworkError" THEN "Connection lost during command send"
  ELSE IF kind = "InvalidStateError" THEN "Serial port not ready for writing"
  ELSE "Send error"

\* the catch of sendCommand: the write at the head of the queue rejects, and
\* with the stream in error so do the writes behind it; only a NetworkError
\* leads to disconnectDevice
WriteFails ==
  /\ writeQueue # <<>>
  /\ \E kind \in WriteErrors, failR \in BOOLEAN, failW \in BOOLEAN,
        failP \in BOOLEAN, stored \in BOOLEAN :
       IF kind = "NetworkError"
       THEN /\ disconnectDevice(failR, failW, failP, stored)
            /\ opLog' = disconnectLog(failR, failW, failP, stored)
                        \o <<Entry("ERROR", writeErrorMessage(kind)),
                             Entry("return", "false")>>
       ELSE /\ writeQueue' = <<>>
            /\ wire' = <<>>
            /\ opLog' = <<Entry("ERROR", writeErrorMessage(kind)),
                          Entry("return", "false")>>
            /\ UNCHANGED <<isConnected, reader, writer, serialPort, portOpen,
                           reading, lastConnectedDevice, storage,
                           connectionStatus, frameVars>>
  /\ UNCHANGED <<granted, connecting, reconnectTimers, autoConnect,
                 lastTelemetry, statusTimers, ctrlVars, geoVars, teardown>>

LinkNext ==
  \/ SilentConnectResolve
  \/ ReconnectTimerFires
  \/ ConnectManually
  \/ ReadError
  \/ StreamEnds
  \/ Telemetry
  \/ Silence
  \/ HealthCheck
  \/ ToggleAutoConnect
  \/ Reload

LinkSpec == Init /\ [][LinkNext]_vars

\* the console as a sender: connects, page loads, and the commands
SendNext ==
  \/ SilentConnectResolve
  \/ ConnectManually
  \/ Reload
  \/ UISend
  \/ StatusTimerFires
  \/ Transmit
  \/ WriteFails

SendSpec == Init /\ [][SendNext]_vars

\* ------------------------------------------------------------ readSerialData
\* what the port hands over, in units: the newline, the carriage return of
\* println, and four pieces of text - a JSON object with "type":"telemetry"
\* ("E"), the object {} ("O"), the literal null ("n") and the word GPS ("G")
NL == "\n"
CR == "\r"
Alphabet == {NL, CR, "E", "O", "n", "G"}

RECURSIVE Texts(_)
Texts(n) ==
  IF n = 0 THEN {<<>>}
  ELSE {Append(t, c) : t \in Texts(n - 1), c \in Alphabet}

\* the values reader.read() resolves with
Chunks == UNION {Texts(n) : n \in 1..MaxChunk}

\* text.split('\n'): the pieces between the newlines, one more than there are
\* newlines
RECURSIVE split(_)
split(text) ==
  IF text = <<>> THEN <<<<>>>>
  ELSE LET rest == split(Tail(text))
       IN IF Head(text) = NL
          THEN <<<<>>>> \o rest
          ELSE <<<<Head(text)>> \o Head(rest)>> \o Tail(rest)

Front(s) == SubSeq(s, 1, Len(s) - 1)

Last(s) == s[Len(s)]

\* a faulty variant: the buffer of the read before is forgotten
accumulateAlone(buffer, value) == split(value)

\* serialBuffer += value; lines = serialBuffer.split('\n')
accumulate(buffer, value) == split(buffer \o value)

RECURSIVE Join(_)
Join(parts) ==
  IF Len(parts) = 1 THEN parts[1]
  ELSE parts[1] \o <<NL>> \o Join(Tail(parts))

\* a faulty variant: the lines are read off but the buffer is not cut
retainWhole(parts) == Join(parts)

\* serialBuffer = lines.pop() || ''
retain(parts) == Last(parts)

RECURSIVE trimStart(_)
trimStart(line) ==
  IF line # <<>> /\ Head(line) = CR THEN trimStart(Tail(line)) ELSE line

RECURSIVE trimEnd(_)
trimEnd(line) ==
  IF line # <<>> /\ Last(line) = CR THEN trimEnd(Front(line)) ELSE line

\* line.trim()
trim(line) == trimEnd(trimStart(line))

\* JSON.parse(data) of a trimmed text: one value and nothing else, or a throw
JSONparse(data) ==
  IF Len(data) = 1 /\ data[1] \in {"E", "O", "n"} THEN data[1] ELSE "throws"

\* data.includes('GPS') || ... || data.includes('Navigation')
hasKeyword(data) == "G" \in Range(data)

\* what processReceivedData does with a line: what it logs, whether it calls
\* handleTelemetryData, and whether it throws
Outcome(log, dispatched, fault) ==
  [log |-> log, dispatched |-> dispatched, fault |-> fault]

\* a faulty variant: no try around the body
uncaught(data) == Outcome(<<>>, FALSE, TRUE)

\* the outer catch of processReceivedData
caught(data) ==
  Outcome(<<Entry("ERROR", "Error processing data"),
            Entry("ERROR", "Raw data")>>, FALSE, FALSE)

\* processReceivedData; jsonData.type of null is a TypeError
processReceivedData(data) ==
  IF trim(data) = <<>> THEN Outcome(<<>>, FALSE, FALSE)
  ELSE IF JSONparse(data) = "throws"
  THEN IF hasKeyword(data)
       THEN Outcome(<<Entry("INFO", "Receiver")>>, FALSE, FALSE)
       ELSE Outcome(<<Entry("WARNING", "Received non-JSON data")>>,
                    FALSE, FALSE)
  ELSE IF JSONparse(data) = "n" THEN caught(data)
  ELSE IF JSONparse(data) = "O"
  THEN Outcome(<<Entry("WARNING", "Received JSON without type field")>>,
               FALSE, FALSE)
  ELSE Outcome(<<Entry("dispatch", "handleTelemetryData")>>, TRUE, FALSE)

\* the body of for (const line of lines)
processLine(line) ==
  IF trim(line) # <<>> THEN processReceivedData(trim(line))
  ELSE Outcome(<<>>, FALSE, FALSE)

\* the lines the loop gets through: all of them, or those up to and with the
\* first one processReceivedData throws on
Processed(lines) ==
  LET faults == {k \in 1..Len(lines) : processLine(lines[k]).fault}
  IN IF faults = {} THEN lines
     ELSE SubSeq(lines, 1, CHOOSE k \in faults : \A j \in faults : k <= j)

RECURSIVE logOf(_)
logOf(lines) ==
  IF lines = <<>> THEN <<>>
  ELSE processLine(Head(lines)).log \o logOf(Tail(lines))

\* one turn of the while loop of readSerialData with a value read: the buffer
\* grows by it, the complete lines are cut off and gone through in order; an
\* error thrown on the way ends the loop in the catch of readSerialData
ReadChunk ==
  /\ reading /\ isConnected /\ reader
  /\ \E value \in Chunks :
       /\ Len(received) + Len(value) <= MaxStream
       /\ LET parts == accumulate(serialBuffer, value)
              lines == Front(parts)
              done == Processed(lines)
          IN IF \A k \in 1..Len(lines) : ~processLine(lines[k]).fault
             THEN /\ serialBuffer' = retain(parts)
                  /\ received' = received \o value
                  /\ delivered' = delivered \o lines
                  /\ opLog' = logOf(done)
                  /\ lastTelemetry' =
                       IF \E k \in 1..Len(done) :
                            processLine(done[k]).dispatched
                       THEN "fresh" ELSE lastTelemetry
                  /\ UNCHANGED <<isConnected, reader, writer, serialPort,
                                 portOpen, reading, lastConnectedDevice,
                                 storage, connectionStatus, reconnectTimers,
                                 writeQueue, wire>>
             ELSE \E failR \in BOOLEAN, failW \in BOOLEAN,
                     failP \in BOOLEAN, stored \in BOOLEAN :
                  /\ disconnectDevice(failR, failW, failP, stored)
                  /\ opLog' =
                       logOf(done)
                       \o <<Entry("ERROR", readErrorMessage("other")),
                            Entry("ERROR", readErrorMessage("other"))>>
                       \o disconnectLog(failR, failW, failP, stored)
                       \o (IF autoConnect
                              /\ handleConnectionLossRuns(isConnected')
                           THEN <<Entry("WARNING", "Connection lost")>>
                           ELSE <<>>)
                  /\ IF autoConnect /\ handleConnectionLossRuns(isConnected')
                     THEN /\ Len(reconnectTimers) < MaxPending
                          /\ reconnectTimers' =
                               Append(reconnectTimers, "loss")
                     ELSE reconnectTimers' = reconnectTimers
                  /\ lastTelemetry' =
                       IF \E k \in 1..Len(done) :
                            processLine(done[k]).dispatched
                       THEN "fresh" ELSE lastTelemetry
  /\ UNCHANGED <<granted, connecting, autoConnect, statusTimers, ctrlVars, geoVars, teardown>>

\* the console as a receiver: connects and disconnects by the button, and
\* the read loop
FrameNext ==
  \/ ConnectManually
  \/ ReadChunk

FrameSpec == Init /\ [][FrameNext]_vars

\* ------------------------------------------------------- calculateDistance
\* calculateDistance over the whole globe, in fixed point: coordinates in
\* whole degrees, sines and cosines in units of 1/Scale, every product
\* rounded to the nearest unit as a floating-point product is rounded to the
\* nearest value, angles to the nearest degree
Scale == 10000

\* the result of an operation that has no value: sqrt of a negative number
NaN == -1

\* sin of 0..90 degrees
SinTable ==
  <<0, 175, 349, 523, 698, 872, 1045, 1219, 1392, 1564, 1736, 1908, 2079,
    2250, 2419, 2588, 2756, 2924, 3090, 3256, 3420, 3584, 3746, 3907, 4067,
    4226, 4384, 4540, 4695, 4848, 5000, 5150, 5299, 5446, 5592, 5736, 5878,
    6018, 6157, 6293, 6428, 6561, 6691, 6820, 6947, 7071, 7193, 7314, 7431,
    7547, 7660, 7771, 7880, 7986, 8090, 8192, 8290, 8387, 8480, 8572, 8660,
    8746, 8829, 8910, 8988, 9063, 9135, 9205, 9272, 9336, 9397, 9455, 9511,
    9563, 9613, 9659, 9703, 9744, 9781, 9816, 9848, 9877, 9903, 9925, 9945,
    9962, 9976, 9986, 9994, 9998, 10000>>

Abs(x) == IF x < 0 THEN -x ELSE x

\* sin(deg * PI / 180) for -180..180 degrees
sin(deg) ==
  LET d == Abs(deg)
      s == IF d <= 90 THEN SinTable[d + 1] ELSE SinTable[180 - d + 1]
  IN IF deg < 0 THEN -s ELSE s

\* cos(deg * PI / 180) for -90..90 degrees
cos(deg) == SinTable[90 - Abs(deg) + 1]

\* x * y, rounded to the nearest unit, ties away from zero
mul(x, y) ==
  LET p == x * y
      q == (Abs(p) + Scale \div 2) \div Scale
  IN IF p < 0 THEN -q ELSE q

RECURSIVE SqrtBetween(_, _, _)
SqrtBetween(n, lo, hi) ==
  IF lo = hi THEN lo
  ELSE LET mid == (lo + hi + 1) \div 2
       IN IF mid * mid <= n THEN SqrtBetween(n, mid, hi)
          ELSE SqrtBetween(n, lo, mid - 1)

\* sqrt(x): NaN below zero
sqrt(x) ==
  IF x = NaN \/ x < 0 THEN NaN ELSE SqrtBetween(x * Scale, 0, 2 * Scale)

\* atan2(y, x) in degrees, for the y >= 0 and x >= 0 the square roots give;
\* NaN if either is
atan2(y, x) ==
  IF y = NaN \/ x = NaN THEN NaN
  ELSE LET off(t) == Abs(y * cos(t) - x * sin(t))
       IN CHOOSE t \in 0..90 :
            \A u \in 0..90 : off(t) < off(u) \/ (off(t) = off(u) /\ t <= u)

\* R * PI / 180: metres in one degree of arc, R = 6371000
DegreeMetres == 111195

\* calculateDistance, line by line
haversine(lat1, lng1, lat2, lng2) ==
  LET dLat == lat2 - lat1
      dLng == lng2 - lng1
      a == mul(sin(dLat \div 2), sin(dLat \div 2))
           + mul(mul(mul(cos(lat1), cos(lat2)), sin(dLng \div 2)),
                 sin(dLng \div 2))
      c == atan2(sqrt(a), sqrt(Scale - a))
  IN IF c = NaN THEN NaN ELSE DegreeMetres * 2 * c

\* positions a fix or a waypoint can have: latitude and longitude in even
\* degrees, among them a pole, two points on the date line, and two pairs of
\* antipodes
Positions ==
  {<<0, 0>>, <<90, 0>>, <<30, 60>>, <<-30, -120>>, <<4, 10>>, <<-4, -170>>,
   <<0, 180>>}

NoDistances == [aa |-> NaN, ab |-> NaN, ba |-> NaN, bc |-> NaN, ac |-> NaN]

\* any three positions A, B and C, with nothing measured yet
DistanceInit ==
  /\ ControllerInit
  /\ LinkInit
  /\ points \in Positions \X Positions \X Positions
  /\ distances = NoDistances

\* calculateDistance is called for the pairs among A, B and C
Measure ==
  /\ LET A == points[1]
         B == points[2]
         C == points[3]
     IN distances' =
          [aa |-> haversine(A[1], A[2], A[1], A[2]),
           ab |-> haversine(A[1], A[2], B[1], B[2]),
           ba |-> haversine(B[1], B[2], A[1], A[2]),
           bc |-> haversine(B[1], B[2], C[1], C[2]),
           ac |-> haversine(A[1], A[2], C[1], C[2])]
  /\ UNCHANGED <<points, ctrlVars, linkVars>>

DistanceNext == Measure

DistanceSpec == DistanceInit /\ [][DistanceNext]_vars

LinkTypeOK ==
  /\ isConnected \in BOOLEAN
  /\ serialPort \in {"null", "port"}
  /\ Len(reconnectTimers) <= MaxPending
  /\ Len(connecting) <= MaxPending
  /\ lastTelemetry \in {"never", "fresh", "stale"}


\* ------------------------------------------------------------------ claims
\* the JSON events among the lines the last step printed
Events == SelectEvents(serialOut)

Complete(w) ==
  w.latitude # Missing /\ w.longitude # Missing /\ w.altitude # Missing

\* a mission spec with 1 to 20 waypoints, each with coordinates and altitude
ValidSpec(c) ==
  /\ c.action = "start_mission"
  /\ c.total_waypoints \in 1..Capacity
  /\ Len(c.waypoints) = c.total_waypoints
  /\ \A i \in 1..Len(c.waypoints) : Complete(c.waypoints[i])

\* C1: after start_mission with a valid spec of 1 to 20 waypoints the state is
\* Navigating, current_index is 0, and the step printed exactly one
\* mission_confirmation event followed by exactly one navigation_started
\* event for waypoint 0.
C1_LoadValidMission ==
  ValidSpec(command) =>
    /\ missionState = "NAVIGATING"
    /\ currentWaypointIndex = 0
    /\ Len(Events) = 2
    /\ Events[1].type = "mission_confirmation"
    /\ Events[2].type = "navigation_update"
    /\ Events[2].status = "navigation_started"
    /\ Events[2].index = 0

C1_Witness ==
  /\ ValidSpec(command)
  /\ command.total_waypoints = Capacity
  /\ missionState = "NAVIGATING"
  /\ totalWaypoints = Capacity

\* a mission spec the claim says is refused: no waypoint, more than the
\* capacity, or a waypoint without a coordinate or an altitude
RefusedSpec(c) ==
  /\ c.action = "start_mission"
  /\ \/ c.total_waypoints = 0
     \/ Len(c.waypoints) = 0
     \/ c.total_waypoints > Capacity
     \/ Len(c.waypoints) > Capacity
     \/ \E i \in 1..Len(c.waypoints) : ~Complete(c.waypoints[i])

\* C2: a start_mission whose spec has no waypoint, exceeds the capacity of 20
\* or has a waypoint without coordinate or altitude is rejected: it changes
\* no controller state and confirms no mission.
C2_RejectsInvalidSpec ==
  [][RefusedSpec(command') =>
       /\ UNCHANGED missionVars
       /\ \A k \in 1..Len(serialOut') :
            serialOut'[k].type # "mission_confirmation"]_vars

\* C3: while Navigating 0 <= current_index < total; in every other state
\* current_index = -1.
C3_IndexInvariant ==
  IF missionState = "NAVIGATING"
  THEN 0 <= currentWaypointIndex /\ currentWaypointIndex < totalWaypoints
  ELSE currentWaypointIndex = -1

\* C4: the total waypoint count never exceeds the capacity of 20.
C4_TotalWithinCapacity == totalWaypoints <= Capacity


\* the positions in a printed sequence of the navigation_update events with
\* the given status
StatusAt(out, st) ==
  {k \in 1..Len(out) : out[k].type = "navigation_update" /\ out[k].status = st}

TerminalAt(out) ==
  StatusAt(out, "mission_complete") \cup StatusAt(out, "returning_home")

\* C5: a tick whose valid fix is within 5 m of the target waypoint i advances
\* current_index from i to i + 1 (for the last waypoint the mission then
\* completes and resets), once per tick; and while one mission stays
\* Navigating current_index never decreases.
C5_ReachAdvancesOnce ==
  [][/\ (wp' # NoWaypoint
           /\ WithinReach(gps.lat, gps.lng, wp'.lat, wp'.lng)) =>
          \/ currentWaypointIndex' = currentWaypointIndex + 1
          \/ /\ currentWaypointIndex + 1 >= totalWaypoints
             /\ missionState' = "WAITING"
             /\ currentWaypointIndex' = -1
     /\ (missionState = "NAVIGATING" /\ missionState' = "NAVIGATING"
           /\ command'.action # "start_mission") =>
          currentWaypointIndex' >= currentWaypointIndex]_vars

C7_EmergencyStopResets ==
  /\ ENABLED EmergencyStop
  /\ command.action = "emergency_stop" =>
       /\ missionState = "WAITING"
       /\ totalWaypoints = 0
       /\ currentWaypointIndex = -1

C7_Witness ==
  /\ command.action = "emergency_stop"
  /\ missionState = "WAITING"
  /\ maxSpeed = 20
  /\ enableReturnToHome

\* C8: processing emergency_stop prints a status event whose status is
\* emergency_stop.
C8_EmergencyStopStatusEvent ==
  command.action = "emergency_stop" =>
    \E k \in 1..Len(serialOut) :
      serialOut[k].type = "status" /\ serialOut[k].status = "emergency_stop"

\* C9: return_home in state Navigating sets the state to Complete and prints
\* one returning_home event; in every other state it changes no controller
\* state and prints no event.
C9_ReturnHomeOnlyNavigating ==
  [][command'.action = "return_home" =>
       IF missionState = "NAVIGATING"
       THEN /\ missionState' = "COMPLETE"
            /\ Len(SelectEvents(serialOut')) = 1
            /\ StatusAt(serialOut', "returning_home") # {}
       ELSE /\ UNCHANGED missionVars
            /\ SelectEvents(serialOut') = <<>>]_vars

FullyReset ==
  /\ missionState = "WAITING"
  /\ currentWaypointIndex = -1
  /\ totalWaypoints = 0
  /\ missionActive = FALSE

\* C10: once a return_home command has been accepted, the controller goes on
\* to the full reset (Idle, index -1, total 0, mission-active flag false)
\* with no further command from the operator.
C10_ReturnHomeLeadsToReset ==
  (command.action = "return_home" /\ StatusAt(serialOut, "returning_home") # {})
    ~> FullyReset

\* the edges of the mission state machine
MachineEdges ==
  {<<"WAITING", "LOADED">>, <<"LOADED", "NAVIGATING">>,
   <<"NAVIGATING", "COMPLETE">>, <<"COMPLETE", "WAITING">>}

FollowsEdge(a, b, stop) ==
  a = b \/ <<a, b>> \in MachineEdges \/ (stop /\ b = "WAITING")

\* C11: every change of the mission state follows an edge of the machine:
\* Idle to Loaded, Loaded to Navigating, Navigating to Complete, Complete to
\* Idle, or, on emergency stop, any state to Idle; no other change occurs.
C11_TransitionsFollowMachine ==
  [][LET path == <<missionState>> \o stateWrites'
     IN /\ missionState' = path[Len(path)]
        /\ \A k \in 1..Len(stateWrites') :
             FollowsEdge(path[k], path[k + 1],
                         command'.action = "emergency_stop")]_vars

NavigationEvents(out) ==
  {k \in 1..Len(out) : out[k].type = "navigation_update"}

\* C12: a tick in a state other than Navigating, or with an invalid fix,
\* changes no mission state and prints no navigation event.
C12_TickNoOp ==
  [][(Navigate /\ ~(missionState = "NAVIGATING" /\ gps.valid)) =>
       (UNCHANGED missionVars /\ NavigationEvents(serialOut') = {})]_vars

\* a tick with an invalid fix that lies on the target left the mission alone
C12_Witness ==
  /\ missionState = "NAVIGATING"
  /\ ~gps.valid
  /\ currentWaypointIndex = 0
  /\ WithinReach(gps.lat, gps.lng, waypoints[0].lat, waypoints[0].lng)
  /\ ~waypoints[0].reached
  /\ command = NoLine
  /\ serialOut = <<>>

\* the step completes the mission: a loop step that prints the terminal event
CompletionStep == command' = NoLine /\ TerminalAt(serialOut') # {}

\* C13: a reached flag, once set, stays set; it is cleared only by a full
\* mission reset (completion, emergency_stop or return_home), never by any
\* other operation.
C13_ReachedClearedOnlyByReset ==
  [][\A i \in 0..(Capacity - 1) :
       (waypoints[i].reached /\ ~waypoints'[i].reached) =>
         \/ CompletionStep
         \/ command'.action \in {"emergency_stop", "return_home"}]_vars

IsMissionEvent(l) == l.type \in {"mission_confirmation", "navigation_update"}
RECURSIVE SelectMissionEvents(_)
SelectMissionEvents(s) ==
  IF s = <<>> THEN <<>>
  ELSE IF IsMissionEvent(Head(s))
       THEN <<Head(s)>> \o SelectMissionEvents(Tail(s))
       ELSE SelectMissionEvents(Tail(s))

\* C15: the mission events of a mission of N >= 1 waypoints come in this
\* order: mission_confirmation, navigation_started(0), then for each i in
\* increasing order waypoint_reached(i) immediately followed by
\* navigating_to(i + 1) if i + 1 < N or by the single terminal event if
\* i = N - 1. Step by step: start_mission prints the first two and sets the
\* index to 0; a return_home of the operator prints at most returning_home;
\* every other step prints no mission event or waypoint_reached(i) for the
\* current index i and then the one event that follows it, and moves the
\* index to i + 1 or ends the mission.
C15_MissionEventOrder ==
  [][LET ev == SelectMissionEvents(serialOut')
         i == currentWaypointIndex
     IN IF command'.action = "start_mission"
        THEN totalWaypoints' >= 1 =>
               /\ Len(ev) = 2
               /\ ev[1].type = "mission_confirmation"
               /\ ev[2].status = "navigation_started"
               /\ ev[2].index = 0
               /\ currentWaypointIndex' = 0
        ELSE IF command'.action = "return_home"
        THEN ev = <<>> \/ (Len(ev) = 1 /\ ev[1].status = "returning_home")
        ELSE \/ ev = <<>>
             \/ /\ Len(ev) = 2
                /\ missionState = "NAVIGATING"
                /\ ev[1].status = "waypoint_reached"
                /\ ev[1].index = i
                /\ IF i + 1 < totalWaypoints
                   THEN /\ ev[2].status = "navigating_to"
                        /\ ev[2].index = i + 1
                        /\ currentWaypointIndex' = i + 1
                        /\ missionState' = "NAVIGATING"
                   ELSE /\ ev[2].status = IF enableReturnToHome
                                          THEN "returning_home"
                                          ELSE "mission_complete"
                        /\ missionState' # "NAVIGATING"]_vars

\* the end of the 2-waypoint mission without return to home: the last step
\* printed waypoint_reached(1) and then mission_complete
C15_Witness ==
  LET ev == SelectMissionEvents(serialOut)
  IN /\ Len(ev) = 2
     /\ ev[1].status = "waypoint_reached"
     /\ ev[1].index = 1
     /\ ev[2].status = "mission_complete"
     /\ serialOut[1].total = 2

KnownActions ==
  {"start_mission", "get_status", "emergency_stop", "return_home"}

StatusEvents(out, st) ==
  {k \in 1..Len(out) : out[k].type = "status" /\ out[k].status = st}

\* C16: a line that is not valid JSON is answered with a status event
\* command_error, and a JSON command with an action other than the four
\* known ones with a status event unknown_command.
C16_RejectedCommandsAnswered ==
  /\ ~command.json => StatusEvents(serialOut, "command_error") # {}
  /\ (command.json /\ command.action \notin KnownActions \cup {""}) =>
       StatusEvents(serialOut, "unknown_command") # {}

\* the messages of the entries a step wrote to the log
Logged(log) == {log[k].msg : k \in 1..Len(log)}

\* reader, writer and port are let go and the manager is not connected
Released ==
  ~isConnected /\ ~reader /\ ~writer /\ serialPort = "null"

ReadFailureMessages ==
  {readErrorMessage(kind) : kind \in ReadErrors} \cup {"Serial stream ended"}

\* C17: a read failure or the end of the stream while connected (with
\* auto-connect on) takes the manager out of Connected, releases reader,
\* writer and port, and schedules exactly one reconnect timer.
C17_ReadFailureEntersLossPath ==
  [][(isConnected /\ autoConnect
        /\ Logged(opLog') \cap ReadFailureMessages # {}) =>
       /\ Released'
       /\ Len(reconnectTimers') = Len(reconnectTimers) + 1]_vars

\* the reconnect attempts outstanding: timers set, and silent connects that
\* a timer started and that wait in getPorts()
Outstanding ==
  Len(reconnectTimers)
    + Cardinality({k \in 1..Len(connecting) : connecting[k] = "reconnect"})

\* C18: at every moment at most one reconnect attempt is outstanding.
C18_SingleFlight == Outstanding <= 1

\* C19: a health-check firing that finds the telemetry stale while connected
\* (with auto-connect on) does what a read failure is to do: the manager
\* leaves Connected, releases its resources and one reconnect timer is set.
C19_HealthCheckEntersLossPath ==
  [][(isConnected /\ autoConnect /\ lastTelemetry = "stale"
        /\ "No data received" \in Logged(opLog')) =>
       /\ Released'
       /\ Len(reconnectTimers') = Len(reconnectTimers) + 1]_vars

\* C20: a disconnect ends not connected with reader, writer and port let go
\* and the status Disconnected, whichever teardown steps fail; a port whose
\* close failed is reported on the console.
C20_DisconnectAlwaysCompletes ==
  [][("Device disconnected" \in Logged(opLog')) =>
       /\ Released'
       /\ connectionStatus' = "Disconnected"
       /\ (serialPort # "null" /\ portOpen /\ portOpen') =>
            "Serial port close error" \in Logged(opLog')]_vars

\* a disconnect in which the reader's cancel and the port's close failed
C20_Witness ==
  /\ {"Reader cancel error", "Serial port close error",
      "Device disconnected"} \subseteq Logged(opLog)
  /\ Released
  /\ portOpen

SendRefusals ==
  {"Device not connected - cannot send command", "Invalid command format",
   "Command too large"}

\* the pieces waiting in the writer's queue and on the wire
Written(queue, line) ==
  UNION {Range(queue[k]) : k \in 1..Len(queue)} \cup Range(line)

\* C21: a send that is refused (not connected, not an object, or longer than
\* 4096) leaves the writer's queue and the wire as they were, logs a warning
\* or an error and returns false; nothing is ever queued while not connected,
\* and no piece of a command longer than 4096 or of a non-object is ever
\* queued or on the wire.
C21_RefusedSendWritesNothing ==
  [][/\ (Logged(opLog') \cap SendRefusals # {}) =>
          /\ UNCHANGED <<writeQueue, wire>>
          /\ opLog'[1].level \in {"WARNING", "ERROR"}
          /\ opLog'[Len(opLog')] = Entry("return", "false")
     /\ (Len(writeQueue') > Len(writeQueue)) =>
          (isConnected /\ writer /\ serialPort # "null")
     /\ \A piece \in Written(writeQueue', wire') :
          piece.length <= MaxCommandLength /\ piece.cmd # "text"]_vars

\* a start_mission one character too long was refused while connected, with
\* another command still waiting in the queue
C21_Witness ==
  /\ opLog = <<Entry("ERROR", "Command too large"),
               Entry("return", "false")>>
  /\ isConnected
  /\ writeQueue # <<>>

WriteFailureMessages == {writeErrorMessage(kind) : kind \in WriteErrors}

\* C22: a write that fails, whatever the error, takes the manager out of
\* Connected, releases reader, writer and port, and schedules a reconnect.
C22_WriteFailureEntersLossPath ==
  [][(Logged(opLog') \cap WriteFailureMessages # {}) =>
       /\ Released'
       /\ Len(reconnectTimers') = Len(reconnectTimers) + 1]_vars

IsPrefix(s, t) == Len(s) <= Len(t) /\ SubSeq(t, 1, Len(s)) = s

SentCommands == UICommands \cup {GetStatusCommand}

\* C23: what is on the wire since the last newline is always the beginning of
\* one command's line - its JSON text, then one newline - and never pieces of
\* two commands.
C23_WritesWholeLines ==
  \E cmd \in SentCommands : IsPrefix(wire, Line(cmd))

\* the get_status of the connect timer is half out while a start_mission of
\* the operator waits behind it
C23_Witness ==
  /\ Len(writeQueue) = 2
  /\ wire = <<Line(GetStatusCommand)[1]>>
  /\ writeQueue[2][1].cmd = "start_mission"

\* the complete lines of a text taken in one piece, and what is left of it
CompleteLines(text) == Front(split(text))

Residual(text) == Last(split(text))

\* C24: however the stream is cut into reads, the lines cut out so far are
\* the complete lines of all that was read, in order and each once, and the
\* buffer holds what follows the last newline.
C24_ChunkingIndependent ==
  /\ delivered = CompleteLines(received)
  /\ serialBuffer = Residual(received)

\* a line of three units and its newline, read in pieces of at most MaxChunk
\* units: one line, nothing left over
C24_Witness ==
  /\ MaxChunk < 4
  /\ received = <<"G", "E", "O", NL>>
  /\ delivered = <<<<"G", "E", "O">>>>
  /\ serialBuffer = <<>>

\* C25: between reads the buffer holds no newline.
C25_BufferUnterminated == NL \notin Range(serialBuffer)

\* lines were cut off and the beginning of the next one is kept
C25_Witness ==
  /\ delivered # <<>>
  /\ serialBuffer # <<>>
  /\ reading

\* a ceiling below what is read over one connection
FrameCeiling == MaxStream - 1

\* C26: the buffer never grows past a fixed ceiling.
C26_BufferBounded == Len(serialBuffer) <= FrameCeiling

ClassificationHeads ==
  {"handleTelemetryData", "Receiver", "Received non-JSON data",
   "Received JSON without type field", "Error processing data"}

Classified(log) ==
  Cardinality({k \in 1..Len(log) : log[k].msg \in ClassificationHeads})

\* C27: no line makes the decoder throw into the read loop: a read never ends
\* in the catch of the loop on account of a line, and after a read the loop
\* goes on, with one classification logged or dispatched for each line that
\* is not blank, an INFO entry for text with a status keyword among them.
C27_DecodeNeverFaults ==
  [][/\ readErrorMessage("other") \notin Logged(opLog')
     /\ (Len(received') > Len(received)) =>
          /\ reading' /\ isConnected'
          /\ Classified(opLog') =
               Cardinality({k \in (Len(delivered) + 1)..Len(delivered') :
                              trim(delivered'[k]) # <<>>})
          /\ \A k \in (Len(delivered) + 1)..Len(delivered') :
               (hasKeyword(delivered'[k]))
                 => Entry("INFO", "Receiver") \in Range(opLog')]_vars

\* the line null was read: the error is logged and the loop goes on
C27_Witness ==
  /\ opLog = <<Entry("ERROR", "Error processing data"),
               Entry("ERROR", "Raw data")>>
  /\ delivered # <<>>
  /\ delivered[Len(delivered)] = <<"n">>
  /\ reading /\ isConnected

\* the step takes the manager from not connected to connected
ConnectStep == ~isConnected /\ isConnected'

\* C28: every successful connect, explicit or silent, hands the identity of
\* the port to the stored settings: it is in connectionSettings afterwards,
\* and in localStorage unless localStorage refused the write.
C28_ConnectPersistsIdentity ==
  [][ConnectStep =>
       /\ lastConnectedDevice' = Device
       /\ \/ storage' = Settings(autoConnect, Device)
          \/ storage' = storage]_vars

\* the silent connect that the page started at load (and no other) ends
StartupConnectEnds ==
  /\ "startup" \in Range(connecting)
  /\ "startup" \notin Range(connecting')
  /\ opLog' # <<>>

\* C29: the silent connect of startup opens a port only if an identity was
\* stored; with no stored identity startup opens no port.
C29_StartupUsesStoredIdentity ==
  [][(StartupConnectEnds /\ ConnectStep) =>
       (storage.present /\ storage.lastConnectedDevice = Device)]_vars

SilentFailureMessages == {"No devices found", "Device not connected"}

FloatEq(x, y) == x # NaN /\ y # NaN /\ x = y

FloatLeq(x, y) == x # NaN /\ y # NaN /\ x <= y

\* one step of the angle calculateDistance ends with
Tolerance == 2 * DegreeMetres

\* C31: for all positions A, B and C the distance of A from itself is 0, the
\* distance from A to B is the distance from B to A, and the distance from A
\* to C is at most the distances from A to B and from B to C together, within
\* the tolerance.
C31_DistanceIsMetric ==
  (distances # NoDistances) =>
    /\ FloatEq(distances.aa, 0)
    /\ FloatEq(distances.ab, distances.ba)
    /\ distances.ab # NaN /\ distances.bc # NaN
    /\ FloatLeq(distances.ac, distances.ab + distances.bc + Tolerance)

\* C32: the mission-active flag is true exactly when the state is LOADED or
\* NAVIGATING.
C32_FlagAgreesWithState ==
  missionActive <=> missionState \in {"LOADED", "NAVIGATING"}

\* C33: while the state is NAVIGATING, for every i below totalWaypoints
\* waypoint i is marked reached exactly if i is below currentWaypointIndex.
C33_ReachedIsPrefix ==
  (missionState = "NAVIGATING") =>
    \A i \in 0..(totalWaypoints - 1) :
      \A slot \in Slots(i) : slot.reached <=> (i < currentWaypointIndex)

\* the step went through waypoints[currentWaypointIndex]: checkWaypoint got
\* to its pointer, or the status report printed its Target line
Dereferenced ==
  \/ wp' # NoWaypoint
  \/ \E k \in 1..Len(serialOut') : serialOut'[k].status = "Target:"

\* C34: whenever checkWaypoint or the status report goes through
\* waypoints[currentWaypointIndex], the index is within the 20 slots, and no
\* step writes behind the array.
C34_IndexWithinArray ==
  [][/\ Dereferenced =>
          (0 <= currentWaypointIndex /\ currentWaypointIndex < Capacity)
     /\ ~memoryCorrupted']_vars

\* the last step printed the event a mission ends with and left the
\* controller reset
Terminated ==
  /\ FullyReset
  /\ TerminalAt(serialOut) # {}

\* C35: with no command while NAVIGATING and fixes at the target of the
\* moment arriving again and again, a mission that is NAVIGATING gets to its
\* terminal event and the reset.
C35_MissionCompletes == (missionState = "NAVIGATING") ~> Terminated

\* C36: whenever the console is marked connected it holds a reader, a writer
\* and a serial port
C36_ConnectedHoldsResources ==
  isConnected => (reader /\ writer /\ serialPort # "null")

\* a silent connect started by a reconnect timer makes the connection
Reopened ==
  /\ ~isConnected
  /\ isConnected'
  /\ \E i \in 1..Len(connecting) :
       connecting[i] = "reconnect" /\ connecting' = Remove(connecting, i)

\* C37: on a link without faults the status Disconnected is the user's
\* completed disconnect with no explicit connect since; from there no
\* reconnect timer brings the connection back
C37_ExplicitDisconnectFinal ==
  [][(connectionStatus = "Disconnected") => ~Reopened]_vars

\* C38: while autoConnect is off no step sets a reconnect timer
C38_NoReconnectWhenOff ==
  [][~autoConnect => Len(reconnectTimers') <= Len(reconnectTimers)]_vars

\* the catch of readSerialData tears the connection down
LossTeardown ==
  /\ isConnected
  /\ ~isConnected'
  /\ \E kind \in ReadErrors : readErrorMessage(kind) \in Logged(opLog')

\* C39: the teardown after a read failure leaves the saved device, in
\* connectionSettings and in localStorage, as it was
C39_LossKeepsIdentity ==
  [][LossTeardown =>
       /\ lastConnectedDevice' = lastConnectedDevice
       /\ storage' = storage]_vars

====
